---- MODULE Spec2Model ----
(***************************************************************************)
(* Model of process_pdf.py: the command-line driver (__main__) and the     *)
(* extraction routine pdf_to_word_json, over a small file system.          *)
(*                                                                         *)
(* Lengths (coordinates, page sizes) are integers counting thousandths of  *)
(* a unit, so round(v, 2) is rounding to a multiple of 10.                 *)
(***************************************************************************)
EXTENDS Integers, Sequences, FiniteSets, TLC

VARIABLES
    argv,              \* sys.argv[1:], a sequence of paths
    fs,                \* the file system: path -> file content
    dirExists,         \* os.path.isdir(default_dir)
    stdout,            \* the lines printed so far
    pc,                \* position of __main__
    i,                 \* index of the next item of the running for loop
    pdf_files_found,   \* the fallback list built from os.listdir
    exitStatus,        \* -1 while running, then the process exit status
    cpc,               \* position inside pdf_to_word_json
    pdf_path,          \* its argument
    output_filename,   \* its local
    json_data,         \* its local: dict, as a sequence of [key, val] in insertion order
    page_num,          \* its loop variable
    doc,               \* state of the fitz document handle of the call
    rmErr,             \* whether os.remove raised OSError in the except handler
    ret                \* the value the last call returned

vars == <<argv, fs, dirExists, stdout, pc, i, pdf_files_found, exitStatus,
          cpc, pdf_path, output_filename, json_data, page_num, doc, rmErr, ret>>

mainVars == <<argv, dirExists, pc, i, pdf_files_found, exitStatus>>

-----------------------------------------------------------------------------
(* Bounds of the model *)

MaxArgs == 2        \* number of command-line arguments
MaxPages == 11      \* pages of a document of equal pages
MaxWords == 2       \* words the library returns for a page
MaxTextLen == 2     \* characters of a raw word

-----------------------------------------------------------------------------
(* Paths: os.path splits a path into directory, stem and extension *)

Path(d, s, e) == [dir |-> d, stem |-> s, ext |-> e]

None == Path("None", "None", "None")

default_dir == "chapters/ancient-history"

\* str.lower() on an extension
Lower(e) == IF e = ".PDF" THEN ".pdf" ELSE e

\* p.lower().endswith('.pdf')
EndsWithPdf(p) == Lower(p.ext) = ".pdf"

\* os.path.join(dirname(p), splitext(basename(p))[0] + ".json")
JsonPath(p) == Path(p.dir, p.stem, ".json")

ArgPaths == { Path(".", "a", ".pdf"), Path(".", "a", ".PDF"), Path(".", "a", ".txt") }

DirPaths == { Path(default_dir, "c", ".pdf"), Path(default_dir, "c", ".PDF"),
              Path(default_dir, "c", ".txt") }

AllPaths == ArgPaths \cup DirPaths \cup { JsonPath(p) : p \in ArgPaths \cup DirPaths }

-----------------------------------------------------------------------------
(* File contents *)

Absent == [kind |-> "absent"]
Junk == [kind |-> "junk"]                    \* a file that is not a PDF
Pdf(d) == [kind |-> "pdf", pages |-> d]       \* a PDF with the given pages
Json(data, complete) == [kind |-> "json", data |-> data, complete |-> complete]

\* os.path.isfile / os.path.exists
IsFile(f, p) == f[p].kind # "absent"
Exists(f, p) == f[p].kind # "absent"

-----------------------------------------------------------------------------
(* Text cleaning (line 55) *)

\* "a": a printable character that is no whitespace; " ": the ASCII space;
\* "TAB": whitespace that str.isprintable() rejects; "NUL": a control character
Chars == { "a", " ", "TAB", "NUL" }

\* char.isprintable(): of all whitespace only the ASCII space is printable
isprintable(c) == c \in { "a", " " }

\* the characters str.strip() removes
isspace(c) == c \in { " ", "TAB" }

RECURSIVE lstrip(_)
lstrip(s) == IF s # <<>> /\ isspace(Head(s)) THEN lstrip(Tail(s)) ELSE s

RECURSIVE rstrip(_)
rstrip(s) ==
    IF s # <<>> /\ isspace(s[Len(s)]) THEN rstrip(SubSeq(s, 1, Len(s) - 1)) ELSE s

strip(s) == rstrip(lstrip(s))

\* ''.join(char for char in word_text if char.isprintable()).strip()
cleaned_word(word_text) == strip(SelectSeq(word_text, isprintable))

-----------------------------------------------------------------------------
(* Numbers (lines 62-76) *)

\* round(v, 2) on thousandths: the nearest multiple of 10, ties to the even one
round2(v) ==
    LET q == v \div 10
        r == v % 10
    IN  IF r < 5 THEN 10 * q
        ELSE IF r > 5 THEN 10 * (q + 1)
        ELSE IF q % 2 = 0 THEN 10 * q ELSE 10 * (q + 1)

Digits == << "0", "1", "2", "3", "4", "5", "6", "7", "8", "9" >>

\* str(n) for n >= 0: the decimal digits, most significant first
RECURSIVE str(_)
str(n) == IF n < 10 THEN << Digits[n + 1] >>
          ELSE str(n \div 10) \o << Digits[(n % 10) + 1] >>

-----------------------------------------------------------------------------
(* The per-word loop body and the page record (lines 50-78) *)

\* a plausible slip: the flip uses the rounded height stored in the page record
BboxRoundedHeight(w, page_height) ==
    << round2(w[1]), round2(round2(page_height) - w[4]),
       round2(w[3]), round2(round2(page_height) - w[2]) >>

\* a plausible slip: y0 and y1 are flipped without being swapped
BboxNoSwap(w, page_height) ==
    << round2(w[1]), round2(page_height - w[2]),
       round2(w[3]), round2(page_height - w[4]) >>

\* w = <<x0, y0, x1, y1, word_text>>, top-left origin; the result has bottom-left origin
bbox(w, page_height) ==
    << round2(w[1]), round2(page_height - w[4]),
       round2(w[3]), round2(page_height - w[2]) >>

\* a plausible slip: the emptiness test looks at the raw text
KeepRaw(w) == w[5] # <<>>

\* "if not cleaned_word: continue" negated: the word is appended
keep(w) == cleaned_word(w[5]) # <<>>

\* the for loop over words_on_page
RECURSIVE word_list_for_json(_, _)
word_list_for_json(words_on_page, page_height) ==
    IF words_on_page = <<>> THEN <<>>
    ELSE LET w == Head(words_on_page)
             rest == word_list_for_json(Tail(words_on_page), page_height)
         IN  IF keep(w)
             THEN << [text |-> cleaned_word(w[5]), bbox |-> bbox(w, page_height)] >> \o rest
             ELSE rest

\* the value stored under str(page_num + 1); n = page_num
PageRecord(page, n) ==
    [ page |-> n + 1,
      width |-> round2(page.width),
      height |-> round2(page.height),
      words |-> word_list_for_json(page.words, page.height) ]

\* a plausible slip: the key is the 0-based page index
KeyZeroBased(n) == str(n)

\* the key of a page: str(page_num + 1)
PageKey(n) == str(n + 1)

\* d[k] = v on a dict held in insertion order
DictSet(d, k, v) ==
    IF \E j \in 1..Len(d) : d[j].key = k
    THEN [ j \in 1..Len(d) |-> IF d[j].key = k THEN [key |-> k, val |-> v] ELSE d[j] ]
    ELSE Append(d, [key |-> k, val |-> v])

-----------------------------------------------------------------------------
(* The documents and pages the model draws its inputs from *)

SeqUpTo(S, n) == UNION { [1..k -> S] : k \in 0..n }

Xs == { 72000, 120005 }
Ys == { 100000, 100001, 115000, 800004 }
Heights == { 792000, 792006 }
Widths == { 612004 }

\* boxes with x0, x1 ordered, equal and inverted, and boxes with y0, y1 so, some
\* of them reaching below the page (y > height)
Boxes == { << x0, 100000, x1, 115000 >> : x0 \in Xs, x1 \in Xs }
         \cup { << 72000, y0, 120005, y1 >> : y0 \in Ys, y1 \in Ys }

Texts == SeqUpTo(Chars, MaxTextLen)

\* the words of get_text("words"): <<x0, y0, x1, y1, text>>
BoxWords == { << b[1], b[2], b[3], b[4], << "a" >> >> : b \in Boxes }
TextWords == { << 72000, 100000, 120005, 115000, t >> : t \in Texts }
PlainWords == { << 72000, 100000, 120005, 115000, << "a" >> >>,
                << 72000, 100001, 120005, 115000, << " " >> >> }

\* pages whose words differ in their boxes
BoxPages == [ height : Heights, width : Widths, words : SeqUpTo(BoxWords, MaxWords) ]

\* pages of up to MaxWords words, one of them with any text of Texts
TextPages ==
    { [ height |-> 792000, width |-> 612004, words |-> pre \o << w >> \o post ] :
        w \in TextWords,
        pre \in SeqUpTo(PlainWords, MaxWords - 1),
        post \in SeqUpTo(PlainWords, MaxWords - 1) }

RichPages == BoxPages \cup { pg \in TextPages : Len(pg.words) <= MaxWords }

HelloPage == [ height |-> 792000, width |-> 612004,
               words |-> << << 72000, 100000, 120000, 115000, << "a", "a" >> >> >> ]

BlankPage == [ height |-> 792006, width |-> 612004,
               words |-> << << 72000, 100001, 120005, 115000, << " ", "NUL" >> >> >> ]

\* the documents of the runs with several arguments
SmallDocs == { <<>>, << HelloPage >>, << BlankPage, HelloPage >> }

\* documents of up to MaxPages equal pages
LongDocs == { [ k \in 1..n |-> HelloPage ] : n \in 0..MaxPages }

-----------------------------------------------------------------------------
(* Initial states *)

a_pdf == Path(".", "a", ".pdf")
a_PDF == Path(".", "a", ".PDF")
a_txt == Path(".", "a", ".txt")
c_pdf == Path(default_dir, "c", ".pdf")
c_PDF == Path(default_dir, "c", ".PDF")
c_txt == Path(default_dir, "c", ".txt")

NoFiles == [ p \in AllPaths |-> Absent ]

InitFrame ==
    /\ stdout = <<>>
    /\ pc = "start"
    /\ i = 0
    /\ pdf_files_found = <<>>
    /\ exitStatus = -1
    /\ cpc = "idle"
    /\ pdf_path = None
    /\ output_filename = None
    /\ json_data = <<>>
    /\ page_num = 0
    /\ doc = "none"
    /\ rmErr = FALSE
    /\ ret = None

\* the file an earlier run on a document of the one page HelloPage wrote
EarlierOutput ==
    Json(<< [key |-> PageKey(0), val |-> PageRecord(HelloPage, 0)] >>, TRUE)

\* a run with arguments over a directory holding a.pdf, a.PDF and a.txt, and
\* a.json of an earlier run or not
InitArgs ==
    /\ argv \in SeqUpTo(ArgPaths, MaxArgs) \ { <<>> }
    /\ dirExists = FALSE
    /\ \E f1 \in { Absent, Junk } \cup { Pdf(d) : d \in SmallDocs },
          f2 \in { Absent, Junk, Pdf(<< BlankPage >>) },
          f3 \in { Absent, EarlierOutput } :
          fs = [ NoFiles EXCEPT ![a_pdf] = f1, ![a_PDF] = f2, ![a_txt] = Junk,
                                ![JsonPath(a_pdf)] = f3 ]
    /\ InitFrame

\* a run without arguments, the default directory missing or holding some files
InitNoArgs ==
    /\ argv = <<>>
    /\ dirExists \in BOOLEAN
    /\ \E f1 \in { Absent, Junk, Pdf(<< HelloPage >>) },
          f2 \in { Absent, Pdf(<< BlankPage >>) },
          f3 \in { Absent, Junk } :
          fs = IF dirExists
               THEN [ NoFiles EXCEPT ![c_pdf] = f1, ![c_PDF] = f2, ![c_txt] = f3 ]
               ELSE NoFiles
    /\ InitFrame

\* a run on one document: a single page drawn from RichPages, or equal pages
InitDoc ==
    /\ argv = << a_pdf >>
    /\ dirExists = FALSE
    /\ \E d \in { << pg >> : pg \in RichPages } \cup LongDocs :
          fs = [ NoFiles EXCEPT ![a_pdf] = Pdf(d) ]
    /\ InitFrame

Init == InitArgs \/ InitNoArgs \/ InitDoc

-----------------------------------------------------------------------------
(* pdf_to_word_json *)

\* a printed line: what it reports, the path and the number it names, the error text
Line(ev, p, n) == [ev |-> ev, path |-> p, n |-> n, found |-> 0, msg |-> ""]

\* "  - Page {n}: Found {found} words."
PageLine(p, n, found) == [ev |-> "Page", path |-> p, n |-> n, found |-> found, msg |-> ""]

\* "Error processing {p}: {e}"
ErrLine(p, e) == [ev |-> "Error", path |-> p, n |-> 0, found |-> 0, msg |-> e]

\* the pages of the document at pdf_path
Pages == fs[pdf_path].pages

\* lines 27-37: the locals are set, the output name computed, "Processing" printed
Call(p) ==
    /\ pdf_path' = p
    /\ json_data' = <<>>
    /\ output_filename' = JsonPath(p)
    /\ stdout' = Append(stdout, Line("Processing", p, 0))
    /\ cpc' = "open"
    /\ page_num' = 0
    /\ doc' = "none"
    /\ rmErr' = FALSE
    /\ ret' = None
    /\ UNCHANGED fs

\* a plausible slip: the handler only reports
ExceptNoCleanup(e, f) ==
    /\ stdout' = Append(stdout, ErrLine(pdf_path, e))
    /\ fs' = f
    /\ rmErr' = FALSE
    /\ cpc' = "returned"
    /\ ret' = None
    /\ UNCHANGED <<pdf_path, output_filename, json_data, page_num, doc>>

\* lines 90-96: the except block, entered with the file system f the failing
\* statement left; os.remove either removes the file or raises OSError, which is
\* swallowed
Except(e, f) ==
    /\ stdout' = Append(stdout, ErrLine(pdf_path, e))
    /\ IF output_filename # None /\ Exists(f, output_filename)
       THEN \/ fs' = [f EXCEPT ![output_filename] = Absent] /\ rmErr' = FALSE
            \/ fs' = f /\ rmErr' = TRUE
       ELSE fs' = f /\ rmErr' = FALSE
    /\ cpc' = "returned"
    /\ ret' = None
    /\ UNCHANGED <<pdf_path, output_filename, json_data, page_num, doc>>

\* line 39: fitz.open succeeds
OpenDoc ==
    /\ cpc = "open"
    /\ fs[pdf_path].kind = "pdf"
    /\ doc' = "open"
    /\ cpc' = "loop"
    /\ UNCHANGED <<fs, stdout, pdf_path, output_filename, json_data, page_num, rmErr, ret>>
    /\ UNCHANGED mainVars

\* line 39: fitz.open raises (no PDF at the path, or an I/O error on a good one)
OpenDocRaise ==
    /\ cpc = "open"
    /\ Except("open", fs)
    /\ UNCHANGED mainVars

\* lines 41-79: one iteration of the page loop
PageStep ==
    /\ cpc = "loop"
    /\ page_num < Len(Pages)
    /\ json_data' = DictSet(json_data, PageKey(page_num),
                            PageRecord(Pages[page_num + 1], page_num))
    /\ stdout' = Append(stdout, PageLine(pdf_path, page_num + 1,
                                          Len(PageRecord(Pages[page_num + 1], page_num).words)))
    /\ page_num' = page_num + 1
    /\ UNCHANGED <<fs, cpc, pdf_path, output_filename, doc, rmErr, ret>>
    /\ UNCHANGED mainVars

\* lines 42-52: load_page, get_text or the unpacking of a word raises
PageRaise ==
    /\ cpc = "loop"
    /\ page_num < Len(Pages)
    /\ \E e \in { "load_page", "get_text", "unpack" } : Except(e, fs)
    /\ UNCHANGED mainVars

\* line 81: the loop is over, doc.close()
LoopDone ==
    /\ cpc = "loop"
    /\ page_num = Len(Pages)
    /\ doc' = "closed"
    /\ cpc' = "write"
    /\ UNCHANGED <<fs, stdout, pdf_path, output_filename, json_data, page_num, rmErr, ret>>
    /\ UNCHANGED mainVars

\* a plausible slip: mode 'a', which keeps what the file holds
OpenOutAppend ==
    /\ cpc = "write"
    /\ fs' = [fs EXCEPT ![output_filename] =
                 IF Exists(fs, output_filename) THEN Json(fs[output_filename].data, FALSE)
                 ELSE Json(<<>>, FALSE)]
    /\ cpc' = "dump"
    /\ UNCHANGED <<stdout, pdf_path, output_filename, json_data, page_num, doc, rmErr, ret>>
    /\ UNCHANGED mainVars

\* line 84: open(output_filename, 'w') creates or truncates the file
OpenOut ==
    /\ cpc = "write"
    /\ fs' = [fs EXCEPT ![output_filename] = Json(<<>>, FALSE)]
    /\ cpc' = "dump"
    /\ UNCHANGED <<stdout, pdf_path, output_filename, json_data, page_num, doc, rmErr, ret>>
    /\ UNCHANGED mainVars

\* line 84: open(output_filename, 'w') raises; nothing is created or truncated
OpenOutRaise ==
    /\ cpc = "write"
    /\ Except("open_w", fs)
    /\ UNCHANGED mainVars

\* the content of the output file once json.dump is through and the file closed:
\* what open() left in it, then the dumped entries
Written(old, data) == Json(old.data \o data, TRUE)

\* lines 85-88: json.dump, the success message, return output_filename
Dump ==
    /\ cpc = "dump"
    /\ fs' = [fs EXCEPT ![output_filename] = Written(fs[output_filename], json_data)]
    /\ stdout' = Append(stdout, Line("Success", output_filename, 0))
    /\ cpc' = "returned"
    /\ ret' = output_filename
    /\ UNCHANGED <<pdf_path, output_filename, json_data, page_num, doc, rmErr>>
    /\ UNCHANGED mainVars

\* line 85: json.dump raises with the first k entries written; the with block
\* closes the file
DumpRaise ==
    /\ cpc = "dump"
    /\ \E k \in 0..Len(json_data) :
          Except("dump", [fs EXCEPT ![output_filename] =
                 Json(fs[output_filename].data \o SubSeq(json_data, 1, k), FALSE)])
    /\ UNCHANGED mainVars

-----------------------------------------------------------------------------
(* __main__ *)

frame == <<cpc, pdf_path, output_filename, json_data, page_num, doc, rmErr, ret>>

\* line 99: the test on len(sys.argv); line 100: the usage line
Start ==
    /\ pc = "start"
    /\ IF Len(argv) < 1
       THEN /\ stdout' = Append(stdout, Line("Usage", None, 0))
            /\ pc' = "fallback"
       ELSE /\ stdout' = stdout
            /\ pc' = "args"
    /\ i' = 1
    /\ UNCHANGED <<argv, fs, dirExists, pdf_files_found, exitStatus>>
    /\ UNCHANGED frame

\* the orders os.listdir may return the names of S in
Orders(S) == { q \in [1..Cardinality(S) -> S] : \A x \in S : \E j \in DOMAIN q : q[j] = x }

\* lines 102-113: the default directory is looked up and listed
Fallback ==
    /\ pc = "fallback"
    /\ IF dirExists
       THEN \E q \in Orders({ p \in DirPaths : Exists(fs, p) /\ EndsWithPdf(p) }) :
               /\ pdf_files_found' = q
               /\ IF q # <<>>
                  THEN /\ stdout' = Append(stdout, Line("Found", None, Len(q)))
                       /\ pc' = "fbloop"
                  ELSE /\ stdout' = Append(stdout, Line("NoPdfFiles", None, 0))
                       /\ pc' = "exit"
       ELSE /\ stdout' = Append(stdout, Line("DirNotFound", None, 0))
            /\ pc' = "exit"
            /\ UNCHANGED pdf_files_found
    /\ UNCHANGED <<argv, fs, dirExists, i, exitStatus>>
    /\ UNCHANGED frame

\* lines 108-109: the next fallback file is handed to pdf_to_word_json
FbStep ==
    /\ pc = "fbloop"
    /\ i <= Len(pdf_files_found)
    /\ Call(pdf_files_found[i])
    /\ pc' = "fb_call"
    /\ UNCHANGED <<argv, dirExists, i, pdf_files_found, exitStatus>>

\* line 108: the call is back, the loop goes on
FbNext ==
    /\ pc = "fb_call"
    /\ cpc = "returned"
    /\ i' = i + 1
    /\ pc' = "fbloop"
    /\ UNCHANGED <<argv, fs, dirExists, stdout, pdf_files_found, exitStatus>>
    /\ UNCHANGED frame

\* line 108: the fallback loop is over
FbDone ==
    /\ pc = "fbloop"
    /\ i > Len(pdf_files_found)
    /\ pc' = "exit"
    /\ UNCHANGED <<argv, fs, dirExists, stdout, i, pdf_files_found, exitStatus>>
    /\ UNCHANGED frame

\* line 114: the status sys.exit is given at the end of the no-argument branch
ExitCode == 1

\* line 114: sys.exit(1)
Exit ==
    /\ pc = "exit"
    /\ exitStatus' = ExitCode
    /\ pc' = "done"
    /\ UNCHANGED <<argv, fs, dirExists, stdout, i, pdf_files_found>>
    /\ UNCHANGED frame

\* line 118: os.path.isfile(p) and p.lower().endswith('.pdf')
ValidArg(f, p) == IsFile(f, p) /\ EndsWithPdf(p)

\* lines 117-119: a valid argument is handed to pdf_to_word_json
ArgsStep ==
    /\ pc = "args"
    /\ i <= Len(argv)
    /\ ValidArg(fs, argv[i])
    /\ Call(argv[i])
    /\ pc' = "args_call"
    /\ UNCHANGED <<argv, dirExists, i, pdf_files_found, exitStatus>>

\* lines 120-121: an invalid argument is reported and skipped
ArgsSkip ==
    /\ pc = "args"
    /\ i <= Len(argv)
    /\ ~ValidArg(fs, argv[i])
    /\ stdout' = Append(stdout, Line("Skipping", argv[i], 0))
    /\ i' = i + 1
    /\ UNCHANGED <<argv, fs, dirExists, pc, pdf_files_found, exitStatus>>
    /\ UNCHANGED frame

\* a plausible slip: the loop goes on only after a successful call
ArgsNextStopOnFailure ==
    /\ pc = "args_call"
    /\ cpc = "returned"
    /\ ret # None
    /\ i' = i + 1
    /\ pc' = "args"
    /\ UNCHANGED <<argv, fs, dirExists, stdout, pdf_files_found, exitStatus>>
    /\ UNCHANGED frame

\* line 117: the call is back, the loop goes on
ArgsNext ==
    /\ pc = "args_call"
    /\ cpc = "returned"
    /\ i' = i + 1
    /\ pc' = "args"
    /\ UNCHANGED <<argv, fs, dirExists, stdout, pdf_files_found, exitStatus>>
    /\ UNCHANGED frame

\* line 117: the loop is over and the script ends, with the default status
ArgsDone ==
    /\ pc = "args"
    /\ i > Len(argv)
    /\ exitStatus' = 0
    /\ pc' = "done"
    /\ UNCHANGED <<argv, fs, dirExists, stdout, i, pdf_files_found>>
    /\ UNCHANGED frame

-----------------------------------------------------------------------------

Next ==
    \/ Start \/ Fallback \/ FbStep \/ FbNext \/ FbDone \/ Exit
    \/ ArgsStep \/ ArgsSkip \/ ArgsNext \/ ArgsDone
    \/ OpenDoc \/ OpenDocRaise \/ PageStep \/ PageRaise \/ LoopDone
    \/ OpenOut \/ OpenOutRaise \/ Dump \/ DumpRaise

Spec == Init /\ [][Next]_vars

-----------------------------------------------------------------------------
(* Properties *)

\* the last call has returned None
Failed == cpc = "returned" /\ ret = None

\* the last call has returned the output path
Succeeded == cpc = "returned" /\ ret # None

\* C1, as stated: after any failed call of pdf_to_word_json no file exists at the
\* output path, whatever step raised the error.
C1_NoFileAfterFailure == Failed => ~Exists(fs, output_filename)

\* C1, amended: after a failed call no file exists at the output path, unless
\* os.remove itself raised OSError in the handler; then the file, partial or
\* older, stays.
C1_NoFileUnlessRemoveRaised ==
    /\ (Failed /\ ~rmErr) => ~Exists(fs, output_filename)
    /\ (Failed /\ rmErr) => Exists(fs, output_filename)

\* C1 witness: json.dump failed part-way (the document was closed, the error is
\* the dump's) and the handler removed the partial file.
C1_Witness ==
    /\ Failed /\ ~rmErr /\ doc = "closed"
    /\ stdout[Len(stdout)].msg = "dump"
    /\ json_data # <<>>
    /\ ~Exists(fs, output_filename)

\* C2, as stated: once the document has been opened, it is closed before
\* pdf_to_word_json returns, on success and on every error path.
C2_DocClosedOnReturn == cpc = "returned" => doc # "open"

\* C3, as stated: a call that fails before it opens the output file leaves a
\* complete output file of an earlier run in place, with its content.
C3_EarlierFileKept ==
    [][ ( /\ cpc \in { "open", "loop" }
          /\ cpc' = "returned"
          /\ fs[output_filename].kind = "json"
          /\ fs[output_filename].complete )
        => fs'[output_filename] = fs[output_filename] ]_vars

\* the lines of stdout that report how an argument was handled
IsArgLine(l) == l.ev \in { "Processing", "Skipping" }

\* C4: with arguments given, the arguments are handled one at a time in argument
\* order; each existing file with a .pdf extension (any case) gets exactly one
\* call, each other argument is skipped, and neither a skipped argument nor a
\* failed call stops the loop: the run goes on until every argument is handled.
C4_EveryArgHandledInOrder ==
    Len(argv) >= 1 =>
        LET handled == SelectSeq(stdout, IsArgLine)
            n == IF pc = "start" THEN 0 ELSE IF pc = "args_call" THEN i ELSE i - 1
        IN  /\ Len(handled) = n
            /\ n <= Len(argv)
            /\ \A k \in 1..n :
                  /\ handled[k].path = argv[k]
                  /\ handled[k].ev = "Processing"
                        <=> ( fs[argv[k]].kind # "absent"
                              /\ argv[k].ext \in { ".pdf", ".PDF" } )
            /\ pc = "done" => n = Len(argv)
            /\ pc # "done" => ENABLED Next
            /\ pc = "args_call" => pdf_path = argv[i]

\* C4 witness: a run over two arguments is done; the first was skipped or its
\* call failed, the second was extracted.
C4_Witness ==
    /\ pc = "done" /\ Len(argv) = 2
    /\ \E j \in 1..Len(stdout) : \E k \in (j + 1)..Len(stdout) :
          /\ stdout[j].ev \in { "Error", "Skipping" }
          /\ stdout[k].ev = "Success"

\* C5, as stated: the exit status is non-zero if and only if the run had no
\* arguments and the default directory is missing or holds no .pdf file.
C5_ExitStatus ==
    pc = "done" =>
        ( exitStatus # 0
          <=> ( Len(argv) = 0
                /\ ( ~dirExists
                     \/ ~\E p \in DirPaths : Exists(fs, p) /\ p.ext \in { ".pdf", ".PDF" } ) ) )

\* the number a digit string denotes, -1 for a string that is no canonical
\* decimal numeral (empty, a leading zero, a character that is no digit)
RECURSIVE DigitsValue(_)
DigitsValue(t) ==
    IF t = <<>> THEN 0
    ELSE LET c == t[Len(t)]
             d == CHOOSE x \in 0..9 : Digits[x + 1] = c
         IN  10 * DigitsValue(SubSeq(t, 1, Len(t) - 1)) + d

Denotes(t, n) ==
    /\ t # <<>>
    /\ \A j \in 1..Len(t) : \E x \in 0..9 : Digits[x + 1] = t[j]
    /\ Len(t) > 1 => t[1] # "0"
    /\ DigitsValue(t) = n

\* data holds exactly the keys "1" .. "n" in this order, the record under the
\* key of k having page = k
KeysOneTo(data, n) ==
    /\ Len(data) = n
    /\ \A k \in 1..n : Denotes(data[k].key, k) /\ data[k].val.page = k

\* C6: after page index page_num - 1 is processed the mapping holds exactly the
\* keys "1" .. str(page_num), each record carrying its page number; the file a
\* successful call wrote for an N-page document holds exactly the keys "1" .. "N".
C6_KeysOneToN ==
    /\ KeysOneTo(json_data, page_num)
    /\ Succeeded =>
          /\ fs[output_filename].kind = "json"
          /\ KeysOneTo(fs[output_filename].data, Len(Pages))

\* C6 witness: a document of at least ten pages has been written.
C6_Witness == Succeeded /\ Len(fs[output_filename].data) >= 10

\* a character that shows: printable and no whitespace
Shows(c) == c \notin { " ", "TAB", "NUL" }

\* the word has text left once non-printable characters and surrounding
\* whitespace are gone
HasText(w) == \E j \in 1..Len(w[5]) : Shows(w[5][j])

Printable(c) == c \notin { "TAB", "NUL" }

\* the text from its first to its last showing character, the non-printable
\* characters between them dropped
TextOf(w) ==
    LET t == w[5]
        S == { j \in 1..Len(t) : Shows(t[j]) }
        lo == CHOOSE j \in S : \A k \in S : j <= k
        hi == CHOOSE j \in S : \A k \in S : k <= j
    IN  SelectSeq(SubSeq(t, lo, hi), Printable)

\* the words list of every page record of data is the library's list for that
\* page without the words that have no text, in the library's order
WordsFiltered(data) ==
    \A k \in 1..Len(data) :
        LET src == SelectSeq(Pages[k].words, HasText)
            out == data[k].val.words
        IN  /\ Len(out) = Len(src)
            /\ \A j \in 1..Len(out) : out[j].text = TextOf(src[j]) /\ out[j].text # <<>>

\* C7: for every page, the output words are exactly the library's words with
\* those removed whose text is empty after cleaning, in the library's order; no
\* output word has empty text.
C7_WordsFilteredInOrder ==
    /\ WordsFiltered(json_data)
    /\ Succeeded => WordsFiltered(fs[output_filename].data)

\* C7 witness: a written page of two library words, the first dropped although
\* its raw text is not empty, the second kept.
C7_Witness ==
    /\ Succeeded /\ Len(Pages) = 1 /\ Len(Pages[1].words) = 2
    /\ Pages[1].words[1][5] # <<>> /\ ~HasText(Pages[1].words[1])
    /\ Len(fs[output_filename].data[1].val.words) = 1

\* r is v rounded to 2 decimals: the nearest multiple of 10 thousandths, and of
\* two equally near ones the even one
IsRounded(v, r) ==
    LET dist == IF r >= v THEN r - v ELSE v - r
    IN  /\ r % 10 = 0
        /\ dist < 5 \/ (dist = 5 /\ (r \div 10) % 2 = 0)

\* every bbox of data is the source box flipped about the unrounded page height
BoxesFlipped(data) ==
    \A k \in 1..Len(data) :
        LET src == SelectSeq(Pages[k].words, HasText)
            out == data[k].val.words
            H == Pages[k].height
        IN  \A j \in 1..Len(out) :
                /\ j <= Len(src)
                /\ Len(out[j].bbox) = 4
                /\ IsRounded(src[j][1], out[j].bbox[1])
                /\ IsRounded(H - src[j][4], out[j].bbox[2])
                /\ IsRounded(src[j][3], out[j].bbox[3])
                /\ IsRounded(H - src[j][2], out[j].bbox[4])

\* C8: the output bbox of a word with library box (x0, y0, x1, y1) on a page of
\* height H is (x0, H - y1, x1, H - y0), each rounded to 2 decimals, H being the
\* unrounded height.
C8_BoxFlippedAndRounded ==
    /\ BoxesFlipped(json_data)
    /\ Succeeded => BoxesFlipped(fs[output_filename].data)

\* C8 witness: a written word on a page of height 792.006 with y0 = 100.001:
\* H - y0 = 692.005 rounds to 692.00, the rounded height would give 692.01.
C8_Witness ==
    /\ Succeeded /\ Len(Pages) = 1 /\ Pages[1].height = 792006
    /\ Len(Pages[1].words) >= 1 /\ Pages[1].words[1][2] = 100001
    /\ Len(fs[output_filename].data[1].val.words) >= 1
    /\ fs[output_filename].data[1].val.words[1].bbox[4] = 692000

\* C9, as stated: every output bbox has bbox[0] <= bbox[2] and bbox[1] <= bbox[3],
\* whatever box the library returned.
C9_BoxOrdered ==
    \A k \in 1..Len(json_data) :
        \A j \in 1..Len(json_data[k].val.words) :
            LET b == json_data[k].val.words[j].bbox
            IN  b[1] <= b[3] /\ b[2] <= b[4]

\* C9, amended: the transform keeps the order of the coordinates and does not
\* establish it: x0 <= x1 gives bbox[0] <= bbox[2] and y0 <= y1 gives
\* bbox[1] <= bbox[3], while x0 > x1 gives bbox[0] >= bbox[2] and y0 > y1 gives
\* bbox[1] >= bbox[3].
C9_BoxOrderKept ==
    \A k \in 1..Len(json_data) :
        LET src == SelectSeq(Pages[k].words, HasText)
            out == json_data[k].val.words
        IN  \A j \in 1..Len(out) :
                LET b == out[j].bbox
                    w == src[j]
                IN  /\ w[1] <= w[3] => b[1] <= b[3]
                    /\ w[2] <= w[4] => b[2] <= b[4]
                    /\ w[1] > w[3] => b[1] >= b[3]
                    /\ w[2] > w[4] => b[2] >= b[4]

\* C9 witness: a word with x0 < x1 and y0 < y1 has been transformed, and its
\* output box is strictly ordered.
C9_Witness ==
    /\ Len(json_data) = 1 /\ Len(json_data[1].val.words) >= 1
    /\ HasText(Pages[1].words[1])
    /\ Pages[1].words[1][1] < Pages[1].words[1][3]
    /\ Pages[1].words[1][2] < Pages[1].words[1][4]
    /\ json_data[1].val.words[1].bbox[1] < json_data[1].val.words[1].bbox[3]
    /\ json_data[1].val.words[1].bbox[2] < json_data[1].val.words[1].bbox[4]

\* the index of the last "Processing" line of stdout, 0 if there is none
LastCall ==
    LET S == { j \in 1..Len(stdout) : stdout[j].ev = "Processing" }
    IN  IF S = {} THEN 0 ELSE CHOOSE j \in S : \A k \in S : k <= j

\* the running (or last) call is the second of two calls in a row on the same
\* path, the first of which succeeded
SecondInARow ==
    /\ LastCall > 2
    /\ stdout[LastCall].path = pdf_path
    /\ stdout[LastCall - 1].ev = "Success"
    /\ LET S == { j \in 1..(LastCall - 1) : stdout[j].ev = "Processing" }
           first == CHOOSE j \in S : \A k \in S : k <= j
       IN  stdout[first].path = pdf_path

\* C10: when pdf_to_word_json runs twice in a row on the same input, the second
\* run, about to open the output file, has computed exactly the content the
\* first run left in it, and the file it writes is exactly that content: nothing
\* of what the file held before is kept and nothing else goes into it.
C10_SecondRunWritesTheSame ==
    /\ (SecondInARow /\ cpc = "write") => fs[output_filename] = Json(json_data, TRUE)
    /\ Succeeded => fs[output_filename] = Json(json_data, TRUE)

\* C10 witness: the second of two runs in a row on a document with pages has
\* succeeded.
C10_Witness == Succeeded /\ SecondInARow /\ json_data # <<>>

====
